---- MODULE Spec2Model ----
(***************************************************************************)
(* A model of the pdf-splitter repository: PDFSplitter.split_invoices with *)
(* its boundary detector _find_invoice_starts (src/src/pdf_splitter.py)    *)
(* and the text replacement of PDFEditor (src/src/pdf_editor.py).          *)
(*                                                                         *)
(* Text is a sequence of Unicode code points.  The texts and markers of    *)
(* the model are ASCII, plus the lower-case letter U+010D of the default   *)
(* marker list, so that str.lower() is the ASCII case mapping.             *)
(***************************************************************************)
EXTENDS Integers, Sequences, FiniteSets, TLC

VARIABLES
    op,                 \* the operation that was called
    pc,                 \* position of the call in its code
    error,              \* the exception the call raised, or "none"
    result,             \* the value the call returned, or None
    pages,              \* reader.pages: the source document of split_invoices
    invoice_markers,    \* argument of split_invoices (None: the default list)
    markers,            \* the marker list handed to _find_invoice_starts
    page_start_pattern, \* argument of split_invoices (None: no pattern)
    invoice_starts,     \* the boundary list
    page_num,           \* loop variable of _find_invoice_starts
    i,                  \* loop variable of split_invoices
    output_files,       \* the list split_invoices returns
    disk,               \* the files of output_dir, in the order of creation
    open_files,         \* the file handles split_invoices holds open
    PYMUPDF_AVAILABLE,  \* whether `import fitz` succeeded
    source,             \* the pages of the document at input_path
    replacements,       \* the (old_text, new_text) pairs of the call, in order
    doc,                \* the pages of the opened fitz document
    doc_state,          \* "unopened", "open" or "closed"
    key_num,            \* position of the loop over replacements.items()
    text_instances,     \* the rectangles page.search_for returned
    inst_num,           \* position of the loop over text_instances
    text_insertions,    \* the (point, font_size, text) triples of the page
    ins_num,            \* position of the loop over text_insertions
    out_file,           \* the document at output_path, or None
    events,             \* the calls made on the document, in order
    first               \* what the call before this one did, or None

splitVars == <<pages, invoice_markers, markers, page_start_pattern, invoice_starts,
               i, output_files, disk, open_files>>

editInputs == <<PYMUPDF_AVAILABLE, source, replacements>>

editLocals == <<doc, doc_state, key_num, text_instances, inst_num,
                text_insertions, ins_num, out_file, events>>

\* what no step of an edit changes
editFixed == <<editInputs, first>>

editVars == <<editFixed, editLocals>>

vars == <<op, pc, error, result, page_num, splitVars, editVars>>

----------------------------------------------------------------------------
(* Bounds of the model. *)

\* the largest number of pages of a source document of split_invoices
MaxPages == 3

----------------------------------------------------------------------------
(* Values. *)

\* An Optional argument is a sequence of at most one value: None is the
\* empty one, Some(v) holds v.
None == << >>
Some(v) == <<v>>

\* bool(x) of a str or a list: the empty value is false
Truthy(x) == x # << >>

\* bool(x) of an Optional[str]: None and the empty string are false
TruthyOpt(x) == x # None /\ Truthy(x[1])

Min(a, b) == IF a < b THEN a ELSE b

\* the marker is searched in text[:500] and its position compared with 500
Window == 500

\* s[:n]
Take(s, n) == SubSeq(s, 1, Min(n, Len(s)))

\* str.lower() of one code point: A-Z map to a-z
LowerChar(c) == IF c >= 65 /\ c <= 90 THEN c + 32 ELSE c

\* str.lower()
Lower(s) == [k \in 1..Len(s) |-> LowerChar(s[k])]

\* whether sub occurs in s at the 0-based offset k
MatchAt(sub, s, k) == \A j \in 1..Len(sub) : s[k + j] = sub[j]

\* sub in s
Contains(sub, s) == \E k \in 0..(Len(s) - Len(sub)) : MatchAt(sub, s, k)

\* s.find(sub): the lowest offset of sub in s, or -1
Find(sub, s) ==
    IF Contains(sub, s)
    THEN CHOOSE k \in 0..(Len(s) - Len(sub)) :
             /\ MatchAt(sub, s, k)
             /\ \A l \in 0..(k - 1) : ~MatchAt(sub, s, l)
    ELSE -1

\* the regex ".*": any run of characters, the empty one included
PatternAny == <<46, 42>>

\* re.search(pattern, text, re.IGNORECASE) for the pattern ".*", which
\* matches at the start of every text, and for a pattern of literal letters
\* (the empty pattern included), which matches where the letters occur, in
\* either case, anywhere in the text
ReSearchIgnoreCase(pattern, text) ==
    IF pattern = PatternAny THEN TRUE
    ELSE Contains(Lower(pattern), Lower(text))

----------------------------------------------------------------------------
(* The inputs of split_invoices. *)

\* "Faktura", "Invoice", "Faktura br.", "Invoice No.", "Račun", "Bill"
DefaultMarkers ==
    << <<70, 97, 107, 116, 117, 114, 97>>,
       <<73, 110, 118, 111, 105, 99, 101>>,
       <<70, 97, 107, 116, 117, 114, 97, 32, 98, 114, 46>>,
       <<73, 110, 118, 111, 105, 99, 101, 32, 78, 111, 46>>,
       <<82, 97, 269, 117, 110>>,
       <<66, 105, 108, 108>> >>

\* the words "Bill", "bill", "B", "l" and the empty string
WordBill == <<66, 105, 108, 108>>
WordBillLower == <<98, 105, 108, 108>>
WordB == <<66>>
WordL == <<108>>

\* n filler characters "."
Pad(n) == [k \in 1..n |-> 46]

\* A page is described by the text its extract_text() yields: pad filler
\* characters followed by a word.
PageKinds ==
    { [pad |-> n, word |-> w] : n \in {0, Window - 1, Window},
                                w \in {<< >>, WordBill} }

\* page.extract_text()
extract_text(page) == Pad(page.pad) \o page.word

Documents == UNION { [1..n -> PageKinds] : n \in 0..MaxPages }

MarkerLists ==
    { None, Some(<< >>), Some(<<WordBillLower>>), Some(<<WordL>>),
      Some(<<WordB, WordBill>>), Some(<< << >> >>) }

Patterns == { None, Some(<< >>), Some(WordBillLower), Some(PatternAny) }

----------------------------------------------------------------------------
(* _find_invoice_starts. *)

\* (mutant) the list of starts begins empty
InitialStartsEmpty == << >>

\* invoice_starts = [0]: the first page always starts the first invoice
InitialStarts == <<0>>

\* range(1, len(reader.pages)): the scan starts at the second page
FirstScanPage == 1

\* (mutant) the marker is looked for in the whole text, not in text[:500]
MarkerQualifiesWholeText(marker, text) ==
    /\ Contains(Lower(marker), Lower(text))
    /\ Find(Lower(marker), Lower(text)) < Window

\* One marker of the loop over the markers: it is contained in the lowered
\* first Window characters, and its position in the lowered text is below
\* Window.
MarkerQualifies(marker, text) ==
    /\ Contains(Lower(marker), Lower(Take(text, Window)))
    /\ Find(Lower(marker), Lower(text)) < Window

\* The loop over the markers, left at the first marker that qualifies.
AnyMarkerQualifies(ms, text) ==
    \E m \in 1..Len(ms) : MarkerQualifies(ms[m], text)

\* `if pattern:` chooses the regex; None and the empty pattern do not
UsesPattern(pattern) == TruthyOpt(pattern)

\* is_new_invoice of a page whose text is not empty
IsNewInvoice(text, ms, pattern) ==
    IF UsesPattern(pattern)
    THEN ReSearchIgnoreCase(pattern[1], text)
    ELSE AnyMarkerQualifies(ms, text)

\* (mutant) a page without text is tested like every other page
ScanPageNoSkip(starts, num, text, ms, pattern) ==
    IF IsNewInvoice(text, ms, pattern) THEN Append(starts, num)
    ELSE starts

\* One pass of the loop over the pages: a page without text is skipped.
ScanPage(starts, num, text, ms, pattern) ==
    IF ~Truthy(text) THEN starts
    ELSE IF IsNewInvoice(text, ms, pattern) THEN Append(starts, num)
    ELSE starts

----------------------------------------------------------------------------
(* split_invoices. *)

total_pages == Len(pages)

\* (mutant) a list holding only the first page counts as nothing found
NoInvoicesFoundBeyondFirst(starts) == Len(starts) <= 1

\* `if not invoice_starts:`
NoInvoicesFound(starts) == ~Truthy(starts)

\* (mutant) range(start_page, end_page + 1)
PageRangeInclusive(start_page, end_page) ==
    [k \in 1..(end_page - start_page + 1) |-> start_page + k - 1]

\* range(start_page, end_page)
PageRange(start_page, end_page) ==
    [k \in 1..(end_page - start_page) |-> start_page + k - 1]

\* the terminal boundary appended to the boundary list
TerminalBoundary(n) == n

\* the decimal digits of n >= 0, the highest first
RECURSIVE Digits(_)
Digits(n) == IF n < 10 THEN <<n>> ELSE Digits(n \div 10) \o <<n % 10>>

\* f"{n:03d}": the digits of n, with zeros in front up to three digits
Format03d(n) ==
    LET d == Digits(n)
    IN  [k \in 1..(3 - Len(d)) |-> 0] \o d

\* (mutant) the files are numbered from 0
OutputNameFromZero(k) ==
    [dir |-> "output_dir", stem |-> "base_name", infix |-> "_faktura_",
     number |-> Format03d(k), ext |-> ".pdf"]

\* self.output_dir / f"{base_name}_faktura_{i+1:03d}.pdf"
OutputName(k) ==
    [dir |-> "output_dir", stem |-> "base_name", infix |-> "_faktura_",
     number |-> Format03d(k + 1), ext |-> ".pdf"]

\* `if invoice_markers is None:` the default list is used
ResolvedMarkers(given) == IF given = None THEN DefaultMarkers ELSE given[1]

\* The call: the default markers, the reader, and the first boundary.
\* PdfReader(path) opens the file at the path, reads it into memory and
\* closes it before it returns: the reader holds no file handle.
SplitInvoices ==
    /\ op = "split_invoices" /\ pc = "start"
    /\ markers' = ResolvedMarkers(invoice_markers)
    /\ open_files' = (open_files \cup {"source"}) \ {"source"}
    /\ invoice_starts' = InitialStarts
    /\ page_num' = FirstScanPage
    /\ pc' = "scan"
    /\ UNCHANGED <<op, error, result, pages, invoice_markers,
                   page_start_pattern, i, output_files, disk, editVars>>

\* PdfReader(path) raises (the file is missing or is not a PDF): the file,
\* if it was opened, is closed by then, and the call ends.
ReaderRaises ==
    /\ op = "split_invoices" /\ pc = "start"
    /\ open_files' = (open_files \cup {"source"}) \ {"source"}
    /\ error' = "PdfReadError"
    /\ pc' = "raised"
    /\ UNCHANGED <<op, result, page_num, pages, invoice_markers, markers,
                   page_start_pattern, invoice_starts, i, output_files,
                   disk, editVars>>

\* One page of the loop of _find_invoice_starts.
FindStep ==
    /\ op = "split_invoices" /\ pc = "scan"
    /\ page_num < Len(pages)
    /\ invoice_starts' = ScanPage(invoice_starts, page_num,
                                  extract_text(pages[page_num + 1]),
                                  markers, page_start_pattern)
    /\ page_num' = page_num + 1
    /\ UNCHANGED <<op, pc, error, result, pages, invoice_markers, markers,
                   page_start_pattern, i, output_files, disk, open_files,
                   editVars>>

\* page.extract_text() raises on a page of the loop: the exception leaves
\* _find_invoice_starts and split_invoices.
FindRaises ==
    /\ op = "split_invoices" /\ pc = "scan"
    /\ page_num < Len(pages)
    /\ error' = "extract_text error"
    /\ pc' = "raised"
    /\ UNCHANGED <<op, result, page_num, splitVars, editVars>>

\* `return invoice_starts`
FindReturn ==
    /\ op = "split_invoices" /\ pc = "scan"
    /\ page_num >= Len(pages)
    /\ pc' = "found"
    /\ UNCHANGED <<op, error, result, page_num, splitVars, editVars>>

\* The check of the boundary list and the terminal boundary.
SplitAppend ==
    /\ op = "split_invoices" /\ pc = "found"
    /\ IF NoInvoicesFound(invoice_starts)
       THEN /\ pc' = "raised"
            /\ error' = "ValueError: no invoices"
            /\ UNCHANGED <<invoice_starts, i>>
       ELSE /\ invoice_starts' =
                   Append(invoice_starts, TerminalBoundary(total_pages))
            /\ i' = 0
            /\ pc' = "write"
            /\ UNCHANGED error
    /\ UNCHANGED <<op, result, pages, invoice_markers, markers,
                   page_start_pattern, page_num, output_files, disk,
                   open_files, editVars>>

\* A file of output_dir: its name and its content, which is None for the
\* file as open(output_path, 'wb') creates it (no bytes, no document) and
\* the document once writer.write has written it.
CreatedFile(name) == [name |-> name, content |-> None]

\* the document of the pages start .. end-1 that a writer writes
WrittenDocument(start_page, end_page) ==
    Some([start |-> start_page,
          end |-> end_page,
          pages |-> PageRange(start_page, end_page)])

\* One output document: its pages are added to a writer, and
\* `with open(output_path, 'wb') as output_file:` creates its file, empty,
\* and holds it open.
OpenOutput ==
    /\ op = "split_invoices" /\ pc = "write"
    /\ i < Len(invoice_starts) - 1
    /\ disk' = Append(disk, CreatedFile(OutputName(i)))
    /\ open_files' = open_files \cup {"output"}
    /\ pc' = "writing"
    /\ UNCHANGED <<op, error, result, page_num, pages, invoice_markers,
                   markers, page_start_pattern, invoice_starts, i,
                   output_files, editVars>>

\* writer.write(output_file) raises: the with statement closes the file and
\* the exception leaves split_invoices. The file stays in output_dir as it
\* was created, without a document.
WriteRaises ==
    /\ op = "split_invoices" /\ pc = "writing"
    /\ open_files' = open_files \ {"output"}
    /\ error' = "OSError"
    /\ pc' = "raised"
    /\ UNCHANGED <<op, result, page_num, pages, invoice_markers, markers,
                   page_start_pattern, invoice_starts, i, output_files,
                   disk, editVars>>

\* The writer is written to the file that was created for it, the with
\* statement closes the file and the path is appended to the list.
WriteOutput ==
    /\ op = "split_invoices" /\ pc = "writing"
    /\ open_files' = open_files \ {"output"}
    /\ pc' = "write"
    /\ LET start_page == invoice_starts[i + 1]
           end_page == invoice_starts[i + 2]
       IN  /\ disk' = [disk EXCEPT ![i + 1].content =
                           WrittenDocument(start_page, end_page)]
           /\ output_files' = Append(output_files, OutputName(i))
    /\ i' = i + 1
    /\ UNCHANGED <<op, error, result, pages, invoice_markers, markers,
                   page_start_pattern, invoice_starts, page_num, editVars>>

\* `return output_files`
SplitReturn ==
    /\ op = "split_invoices" /\ pc = "write"
    /\ i >= Len(invoice_starts) - 1
    /\ result' = output_files
    /\ pc' = "done"
    /\ UNCHANGED <<op, error, page_num, splitVars, editVars>>

----------------------------------------------------------------------------
(* The fitz document of PDFEditor.                                         *)
(*                                                                         *)
(* A page holds one line of text: the glyph of index k (from 1) covers the *)
(* horizontal span k-1 .. k, and the line covers the vertical span         *)
(* 0 .. height.  A glyph that a redaction removed is the code 0.  Texts    *)
(* inserted later are kept beside the line, each with its point and size.  *)

\* the largest number of pages of a document that is edited
MaxEditPages == 2

LineAB == <<97, 98>>
LineABA == <<97, 98, 97>>
TextA == <<97>>
TextB == <<98>>
TextC == <<99>>
TextBA == <<98, 97>>

SourcePageKinds ==
    { [line |-> << >>, height |-> 10],
      [line |-> LineAB, height |-> 10],
      [line |-> LineABA, height |-> 20] }

SourceDocuments == UNION { [1..n -> SourcePageKinds] : n \in 0..MaxEditPages }

\* the (old_text, new_text) arguments of replace_text
SinglePairs ==
    { <<TextA, TextC>>, <<TextA, TextB>>, <<LineAB, TextC>>, <<TextBA, TextC>> }

\* the items of the dictionaries given to replace_text_multiple, in order
ReplacementSets ==
    { << >>,
      << <<TextA, TextC>> >>,
      << <<TextA, TextB>>, <<TextB, TextA>> >>,
      << <<LineAB, TextC>>, <<TextB, TextA>> >> }

\* fitz.open: the pages of the document, without annotations or insertions
OpenDocument(src) ==
    [n \in 1..Len(src) |->
        [line |-> src[n].line, height |-> src[n].height,
         annots |-> << >>, inserts |-> << >>]]

Rect(x0, y0, x1, y1) == [x0 |-> x0, y0 |-> y0, x1 |-> x1, y1 |-> y1]

\* the offsets of the occurrences of needle in line from offset k on, left
\* to right, the search going on behind each occurrence; the case of ASCII
\* letters is ignored, and an empty needle is found nowhere
RECURSIVE Hits(_, _, _)
Hits(line, needle, k) ==
    IF needle = << >> \/ k + Len(needle) > Len(line) THEN << >>
    ELSE IF MatchAt(Lower(needle), Lower(line), k)
         THEN <<k>> \o Hits(line, needle, k + Len(needle))
         ELSE Hits(line, needle, k + 1)

\* the rectangles of needle in the texts inserted on the page
RECURSIVE InsertedHits(_, _)
InsertedHits(inserts, needle) ==
    IF inserts = << >> THEN << >>
    ELSE LET e == inserts[1]
             hits == Hits(e.text, needle, 0)
         IN  [h \in 1..Len(hits) |->
                 Rect(e.point[1] + hits[h], e.point[2] - e.fontsize,
                      e.point[1] + hits[h] + Len(needle), e.point[2])]
             \o InsertedHits(Tail(inserts), needle)

\* page.search_for(needle): the rectangles of the text as the page holds it
\* now, the line first and the inserted texts after it
search_for(page, needle) ==
    LET hits == Hits(page.line, needle, 0)
    IN  [h \in 1..Len(hits) |->
            Rect(hits[h], 0, hits[h] + Len(needle), page.height)]
        \o InsertedHits(page.inserts, needle)

\* page.apply_redactions(): the glyphs under a redaction annotation are
\* removed and the annotations are gone
apply_redactions(page) ==
    [page EXCEPT
        !.line = [k \in 1..Len(page.line) |->
                     IF \E a \in 1..Len(page.annots) :
                            /\ page.annots[a].x0 < k
                            /\ k - 1 < page.annots[a].x1
                            /\ page.annots[a].y0 < page.height
                            /\ 0 < page.annots[a].y1
                     THEN 0 ELSE page.line[k]],
        !.annots = << >>]

\* (mutant) the redaction is applied as soon as the annotation is added
AddRedactAnnotApplied(page, inst) ==
    apply_redactions([page EXCEPT !.annots = Append(@, inst)])

\* page.add_redact_annot(inst): the redaction is marked, not applied
add_redact_annot(page, inst) == [page EXCEPT !.annots = Append(@, inst)]

\* page.insert_text(point, text, fontsize=font_size, color=(0, 0, 0))
insert_text(page, point, text, fontsize) ==
    [page EXCEPT !.inserts =
        Append(@, [point |-> point, text |-> text, fontsize |-> fontsize,
                   color |-> <<0, 0, 0>>])]

\* (mutant) the point is taken at the right edge of the rectangle
InsertionAtRightEdge(inst, new) ==
    LET rect_height == inst.y1 - inst.y0
        font_size == (rect_height * 8) \div 10
    IN  [point |-> <<inst.x1, inst.y1 - (rect_height - font_size) \div 2>>,
         font_size |-> font_size,
         text |-> new]

\* The insertion computed from a rectangle: font_size = rect_height * 0.8,
\* point = (inst.x0, inst.y1 - (rect_height - font_size) / 2).
Insertion(inst, new) ==
    LET rect_height == inst.y1 - inst.y0
        font_size == (rect_height * 8) \div 10
    IN  [point |-> <<inst.x0, inst.y1 - (rect_height - font_size) \div 2>>,
         font_size |-> font_size,
         text |-> new]

\* doc.save(output_path): the file holds the document as it is now; with it
\* the number of pages whose processing was over when it was written
Saved(document, done_pages) ==
    Some([pages |-> document, done_pages |-> done_pages])

\* A call on the document or on one of its pages; a save carries the number
\* of pages whose processing was over when it was made.
Event(call, page, arg) == [call |-> call, page |-> page, arg |-> arg]

RectArg(r) == <<r.x0, r.y0, r.x1, r.y1>>

InsertArg(t) == <<t.point[1], t.point[2], t.font_size>> \o t.text

----------------------------------------------------------------------------
(* replace_text and _replace_text_pymupdf. *)

old_text == replacements[1][1]
new_text == replacements[1][2]

\* replace_text: with PyMuPDF it is _replace_text_pymupdf; without it,
\* _replace_text_pypdf raises ImportError.
ReplaceText ==
    /\ op = "replace_text" /\ pc = "start"
    /\ IF PYMUPDF_AVAILABLE
       THEN pc' = "s_open" /\ UNCHANGED error
       ELSE pc' = "raised" /\ error' = "ImportError"
    /\ UNCHANGED <<op, result, page_num, splitVars, editVars>>

\* doc = fitz.open(str(self.input_path))
SOpen ==
    /\ op = "replace_text" /\ pc = "s_open"
    /\ doc' = OpenDocument(source)
    /\ doc_state' = "open"
    /\ page_num' = 0
    /\ pc' = "s_page"
    /\ UNCHANGED <<op, error, result, splitVars, editFixed, key_num,
                   text_instances, inst_num, text_insertions, ins_num,
                   out_file, events>>

\* The head of the loop over the pages and the search on the page.
SSearch ==
    /\ op = "replace_text" /\ pc = "s_page"
    /\ page_num < Len(doc)
    /\ text_instances' = search_for(doc[page_num + 1], old_text)
    /\ text_insertions' = << >>
    /\ inst_num' = 0
    /\ events' = Append(events, Event("search_for", page_num, old_text))
    /\ pc' = "s_annot"
    /\ UNCHANGED <<op, error, result, page_num, splitVars, editFixed, doc,
                   doc_state, key_num, ins_num, out_file>>

\* One instance: its redaction is marked and its insertion is recorded.
SAnnot ==
    /\ op = "replace_text" /\ pc = "s_annot"
    /\ inst_num < Len(text_instances)
    /\ LET inst == text_instances[inst_num + 1]
       IN  /\ doc' = [doc EXCEPT ![page_num + 1] = add_redact_annot(@, inst)]
           /\ text_insertions' =
                  Append(text_insertions, Insertion(inst, new_text))
           /\ events' = Append(events,
                  Event("add_redact_annot", page_num, RectArg(inst)))
    /\ inst_num' = inst_num + 1
    /\ UNCHANGED <<op, pc, error, result, page_num, splitVars, editFixed,
                   doc_state, key_num, text_instances, ins_num, out_file>>

\* (mutant) page.apply_redactions() without the test of text_instances
SApplyAlways ==
    /\ op = "replace_text" /\ pc = "s_annot"
    /\ inst_num >= Len(text_instances)
    /\ doc' = [doc EXCEPT ![page_num + 1] = apply_redactions(@)]
    /\ events' = Append(events, Event("apply_redactions", page_num, << >>))
    /\ ins_num' = 0
    /\ pc' = "s_insert"
    /\ UNCHANGED <<op, error, result, page_num, splitVars, editFixed,
                   doc_state, key_num, text_instances, inst_num,
                   text_insertions, out_file>>

\* `if text_instances: page.apply_redactions()`
SApply ==
    /\ op = "replace_text" /\ pc = "s_annot"
    /\ inst_num >= Len(text_instances)
    /\ IF Truthy(text_instances)
       THEN /\ doc' = [doc EXCEPT ![page_num + 1] = apply_redactions(@)]
            /\ events' = Append(events,
                   Event("apply_redactions", page_num, << >>))
       ELSE UNCHANGED <<doc, events>>
    /\ ins_num' = 0
    /\ pc' = "s_insert"
    /\ UNCHANGED <<op, error, result, page_num, splitVars, editFixed,
                   doc_state, key_num, text_instances, inst_num,
                   text_insertions, out_file>>

\* One insertion of the new text.
SInsert ==
    /\ op = "replace_text" /\ pc = "s_insert"
    /\ ins_num < Len(text_insertions)
    /\ LET t == text_insertions[ins_num + 1]
       IN  /\ doc' = [doc EXCEPT ![page_num + 1] =
                         insert_text(@, t.point, t.text, t.font_size)]
           /\ events' = Append(events,
                  Event("insert_text", page_num, InsertArg(t)))
    /\ ins_num' = ins_num + 1
    /\ UNCHANGED <<op, pc, error, result, page_num, splitVars, editFixed,
                   doc_state, key_num, text_instances, inst_num,
                   text_insertions, out_file>>

\* The doc.save(output_path) that ends each pass of the loop.
SSaveInLoop ==
    /\ op = "replace_text" /\ pc = "s_insert"
    /\ ins_num >= Len(text_insertions)
    /\ out_file' = Saved(doc, page_num + 1)
    /\ events' = Append(events, Event("save", page_num, <<page_num + 1>>))
    /\ page_num' = page_num + 1
    /\ pc' = "s_page"
    /\ UNCHANGED <<op, error, result, splitVars, editFixed, doc, doc_state,
                   key_num, text_instances, inst_num, text_insertions,
                   ins_num>>

\* The doc.save(output_path) after the loop.
SSaveFinal ==
    /\ op = "replace_text" /\ pc = "s_page"
    /\ page_num >= Len(doc)
    /\ out_file' = Saved(doc, page_num)
    /\ events' = Append(events, Event("save", page_num, <<page_num>>))
    /\ pc' = "closing"
    /\ UNCHANGED <<op, error, result, page_num, splitVars, editFixed, doc,
                   doc_state, key_num, text_instances, inst_num,
                   text_insertions, ins_num>>

----------------------------------------------------------------------------
(* replace_text_multiple. *)

\* (mutant) the document is opened whether PyMuPDF is there or not
ReplaceTextMultipleUnchecked ==
    /\ op = "replace_text_multiple" /\ pc = "start"
    /\ pc' = "m_open"
    /\ UNCHANGED <<op, error, result, page_num, splitVars, editVars>>

\* replace_text_multiple: `if PYMUPDF_AVAILABLE:`, else ImportError is raised.
ReplaceTextMultiple ==
    /\ op = "replace_text_multiple" /\ pc = "start"
    /\ IF PYMUPDF_AVAILABLE
       THEN pc' = "m_open" /\ UNCHANGED error
       ELSE pc' = "raised" /\ error' = "ImportError"
    /\ UNCHANGED <<op, result, page_num, splitVars, editVars>>

\* doc = fitz.open(str(self.input_path))
MOpen ==
    /\ op = "replace_text_multiple" /\ pc = "m_open"
    /\ doc' = OpenDocument(source)
    /\ doc_state' = "open"
    /\ page_num' = 0
    /\ pc' = "m_page"
    /\ UNCHANGED <<op, error, result, splitVars, editFixed, key_num,
                   text_instances, inst_num, text_insertions, ins_num,
                   out_file, events>>

\* The head of the loop over the pages: text_insertions = [].
MPage ==
    /\ op = "replace_text_multiple" /\ pc = "m_page"
    /\ page_num < Len(doc)
    /\ text_insertions' = << >>
    /\ key_num' = 0
    /\ pc' = "m_key"
    /\ UNCHANGED <<op, error, result, page_num, splitVars, editFixed, doc,
                   doc_state, text_instances, inst_num, ins_num, out_file,
                   events>>

\* The head of the loop over the replacements and the search for the key.
MSearch ==
    /\ op = "replace_text_multiple" /\ pc = "m_key"
    /\ key_num < Len(replacements)
    /\ text_instances' =
           search_for(doc[page_num + 1], replacements[key_num + 1][1])
    /\ inst_num' = 0
    /\ events' = Append(events,
           Event("search_for", page_num, replacements[key_num + 1][1]))
    /\ pc' = "m_annot"
    /\ UNCHANGED <<op, error, result, page_num, splitVars, editFixed, doc,
                   doc_state, key_num, text_insertions, ins_num, out_file>>

\* One instance: its redaction is marked and its insertion is recorded.
MAnnot ==
    /\ op = "replace_text_multiple" /\ pc = "m_annot"
    /\ inst_num < Len(text_instances)
    /\ LET inst == text_instances[inst_num + 1]
       IN  /\ doc' = [doc EXCEPT ![page_num + 1] = add_redact_annot(@, inst)]
           /\ text_insertions' =
                  Append(text_insertions,
                         Insertion(inst, replacements[key_num + 1][2]))
           /\ events' = Append(events,
                  Event("add_redact_annot", page_num, RectArg(inst)))
    /\ inst_num' = inst_num + 1
    /\ UNCHANGED <<op, pc, error, result, page_num, splitVars, editFixed,
                   doc_state, key_num, text_instances, ins_num, out_file>>

\* The instances of the key are done: the next key.
MNextKey ==
    /\ op = "replace_text_multiple" /\ pc = "m_annot"
    /\ inst_num >= Len(text_instances)
    /\ key_num' = key_num + 1
    /\ pc' = "m_key"
    /\ UNCHANGED <<op, error, result, page_num, splitVars, editFixed, doc,
                   doc_state, text_instances, inst_num, text_insertions,
                   ins_num, out_file, events>>

\* (mutant) page.apply_redactions() without the test of text_insertions
MApplyAlways ==
    /\ op = "replace_text_multiple" /\ pc = "m_key"
    /\ key_num >= Len(replacements)
    /\ doc' = [doc EXCEPT ![page_num + 1] = apply_redactions(@)]
    /\ events' = Append(events, Event("apply_redactions", page_num, << >>))
    /\ ins_num' = 0
    /\ pc' = "m_insert"
    /\ UNCHANGED <<op, error, result, page_num, splitVars, editFixed,
                   doc_state, key_num, text_instances, inst_num,
                   text_insertions, out_file>>

\* `if text_insertions: page.apply_redactions()`, after the last key
MApply ==
    /\ op = "replace_text_multiple" /\ pc = "m_key"
    /\ key_num >= Len(replacements)
    /\ IF Truthy(text_insertions)
       THEN /\ doc' = [doc EXCEPT ![page_num + 1] = apply_redactions(@)]
            /\ events' = Append(events,
                   Event("apply_redactions", page_num, << >>))
       ELSE UNCHANGED <<doc, events>>
    /\ ins_num' = 0
    /\ pc' = "m_insert"
    /\ UNCHANGED <<op, error, result, page_num, splitVars, editFixed,
                   doc_state, key_num, text_instances, inst_num,
                   text_insertions, out_file>>

\* One insertion of a new text.
MInsert ==
    /\ op = "replace_text_multiple" /\ pc = "m_insert"
    /\ ins_num < Len(text_insertions)
    /\ LET t == text_insertions[ins_num + 1]
       IN  /\ doc' = [doc EXCEPT ![page_num + 1] =
                         insert_text(@, t.point, t.text, t.font_size)]
           /\ events' = Append(events,
                  Event("insert_text", page_num, InsertArg(t)))
    /\ ins_num' = ins_num + 1
    /\ UNCHANGED <<op, pc, error, result, page_num, splitVars, editFixed,
                   doc_state, key_num, text_instances, inst_num,
                   text_insertions, out_file>>

\* The insertions of the page are done: the next page.
MNextPage ==
    /\ op = "replace_text_multiple" /\ pc = "m_insert"
    /\ ins_num >= Len(text_insertions)
    /\ page_num' = page_num + 1
    /\ pc' = "m_page"
    /\ UNCHANGED <<op, error, result, splitVars, editVars>>

\* The first doc.save(output_path) after the loop.
MSave ==
    /\ op = "replace_text_multiple" /\ pc = "m_page"
    /\ page_num >= Len(doc)
    /\ out_file' = Saved(doc, page_num)
    /\ events' = Append(events, Event("save", page_num, <<page_num>>))
    /\ pc' = "m_save"
    /\ UNCHANGED <<op, error, result, page_num, splitVars, editFixed, doc,
                   doc_state, key_num, text_instances, inst_num,
                   text_insertions, ins_num>>

\* The second doc.save(output_path).
MSaveAgain ==
    /\ op = "replace_text_multiple" /\ pc = "m_save"
    /\ out_file' = Saved(doc, page_num)
    /\ events' = Append(events, Event("save", page_num, <<page_num>>))
    /\ pc' = "closing"
    /\ UNCHANGED <<op, error, result, page_num, splitVars, editFixed, doc,
                   doc_state, key_num, text_instances, inst_num,
                   text_insertions, ins_num>>

----------------------------------------------------------------------------
(* Exceptions of the fitz calls, and the finally clause. *)

\* the positions inside the try block; a fitz call is ahead at each of them
TryBlock ==
    {"s_page", "s_annot", "s_insert",
     "m_page", "m_key", "m_annot", "m_insert", "m_save"}

\* fitz.open raises: the call ends before its try block.
OpenRaises ==
    /\ pc \in {"s_open", "m_open"}
    /\ error' = "FileDataError"
    /\ pc' = "raised"
    /\ UNCHANGED <<op, result, page_num, splitVars, editVars>>

\* (mutant) the exception leaves the function without the finally clause
CallRaisesNoFinally ==
    /\ pc \in TryBlock
    /\ error' = "RuntimeError"
    /\ pc' = "raised"
    /\ UNCHANGED <<op, result, page_num, splitVars, editVars>>

\* A call on the page or the document raises: control goes to the finally
\* clause, and the exception leaves the function after it.
CallRaises ==
    /\ pc \in TryBlock
    /\ error' = "RuntimeError"
    /\ pc' = "closing"
    /\ UNCHANGED <<op, result, page_num, splitVars, editVars>>

\* `finally: doc.close()`, then `return output_path` or the exception.
CloseDocument ==
    /\ pc = "closing"
    /\ doc_state' = "closed"
    /\ events' = Append(events, Event("close", page_num, << >>))
    /\ IF error = "none"
       THEN pc' = "done" /\ result' = <<"output_path">>
       ELSE pc' = "raised" /\ UNCHANGED result
    /\ UNCHANGED <<op, error, page_num, splitVars, editFixed, doc, key_num,
                   text_instances, inst_num, text_insertions, ins_num,
                   out_file>>

----------------------------------------------------------------------------
(* The specification. *)

InitSplit ==
    /\ op = "split_invoices"
    /\ pages \in Documents
    /\ invoice_markers \in MarkerLists
    /\ markers = << >>
    /\ page_start_pattern \in Patterns
    /\ invoice_starts = << >>
    /\ i = 0
    /\ output_files = << >>
    /\ disk = << >>
    /\ open_files = {}

\* the variables of split_invoices while a document is edited
IdleSplit ==
    /\ pages = << >>
    /\ invoice_markers = None
    /\ page_start_pattern = None
    /\ markers = << >>
    /\ invoice_starts = << >>
    /\ i = 0
    /\ output_files = << >>
    /\ disk = << >>
    /\ open_files = {}

\* the variables of the editor at the call, given its arguments
InitEdit ==
    /\ doc = << >>
    /\ doc_state = "unopened"
    /\ key_num = 0
    /\ text_instances = << >>
    /\ inst_num = 0
    /\ text_insertions = << >>
    /\ ins_num = 0
    /\ out_file = None
    /\ events = << >>

Init ==
    /\ pc = "start"
    /\ error = "none"
    /\ first = None
    /\ result = None
    /\ page_num = 0
    /\ \/ /\ InitSplit
          /\ PYMUPDF_AVAILABLE = TRUE
          /\ source = << >>
          /\ replacements = << >>
          /\ InitEdit
       \/ /\ op = "replace_text"
          /\ PYMUPDF_AVAILABLE \in BOOLEAN
          /\ source \in SourceDocuments
          /\ replacements \in { <<pair>> : pair \in SinglePairs }
          /\ InitEdit
          /\ IdleSplit
       \/ /\ op = "replace_text_multiple"
          /\ PYMUPDF_AVAILABLE \in BOOLEAN
          /\ source \in SourceDocuments
          /\ replacements \in ReplacementSets
          /\ InitEdit
          /\ IdleSplit

Next ==
    \/ SplitInvoices
    \/ ReaderRaises
    \/ FindStep
    \/ FindRaises
    \/ FindReturn
    \/ SplitAppend
    \/ OpenOutput
    \/ WriteRaises
    \/ WriteOutput
    \/ SplitReturn
    \/ ReplaceText
    \/ SOpen
    \/ SSearch
    \/ SAnnot
    \/ SApply
    \/ SInsert
    \/ SSaveInLoop
    \/ SSaveFinal
    \/ ReplaceTextMultiple
    \/ MOpen
    \/ MPage
    \/ MSearch
    \/ MAnnot
    \/ MNextKey
    \/ MApply
    \/ MInsert
    \/ MNextPage
    \/ MSave
    \/ MSaveAgain
    \/ OpenRaises
    \/ CallRaises
    \/ CloseDocument

Spec == Init /\ [][Next]_vars

----------------------------------------------------------------------------
(* The two entry points of the editor on the same input: replace_text(old, *)
(* new), then replace_text_multiple({old: new}) on the same editor, with   *)
(* the same output path.                                                   *)

\* replace_text has ended, by returning or with ImportError: what it did is
\* kept, and replace_text_multiple is called with the one pair as its
\* mapping. The file at the output path stays as the first call left it.
SecondCall ==
    /\ op = "replace_text" /\ first = None
    /\ \/ pc = "done"
       \/ pc = "raised" /\ error = "ImportError"
    /\ first' = Some([events |-> events, out_file |-> out_file,
                      error |-> error, result |-> result])
    /\ op' = "replace_text_multiple"
    /\ pc' = "start"
    /\ error' = "none"
    /\ result' = None
    /\ page_num' = 0
    /\ doc' = << >>
    /\ doc_state' = "unopened"
    /\ key_num' = 0
    /\ text_instances' = << >>
    /\ inst_num' = 0
    /\ text_insertions' = << >>
    /\ ins_num' = 0
    /\ events' = << >>
    /\ UNCHANGED <<splitVars, editInputs, out_file>>

InitEquiv == Init /\ op = "replace_text"

NextEquiv ==
    \/ ReplaceText
    \/ SOpen
    \/ SSearch
    \/ SAnnot
    \/ SApply
    \/ SInsert
    \/ SSaveInLoop
    \/ SSaveFinal
    \/ SecondCall
    \/ ReplaceTextMultiple
    \/ MOpen
    \/ MPage
    \/ MSearch
    \/ MAnnot
    \/ MNextKey
    \/ MApply
    \/ MInsert
    \/ MNextPage
    \/ MSave
    \/ MSaveAgain
    \/ OpenRaises
    \/ CallRaises
    \/ CloseDocument

SpecEquiv == InitEquiv /\ [][NextEquiv]_vars

----------------------------------------------------------------------------
(* Properties of split_invoices. *)

Splitting == op = "split_invoices"

\* the document in the k-th file of output_dir, once it is written
OutputDocument(k) == disk[k].content[1]

\* every file of output_dir holds the document written to it
AllWritten == \A k \in 1..Len(disk) : disk[k].content # None

\* the page indices 0 .. n-1 in order
AllPages(n) == [k \in 1..n |-> k - 1]

\* the pages of the files, one file after the other
RECURSIVE ConcatPages(_)
ConcatPages(files) ==
    IF files = << >> THEN << >>
    ELSE files[1].content[1].pages \o ConcatPages(Tail(files))

\* C1: for a document of N >= 1 pages, the output documents of
\* split_invoices have page ranges [start, end) that are contiguous and in
\* page order, start at 0 and end at N; no page is in two of them, and
\* their pages, one document after the other, are exactly the pages
\* 0 .. N-1, so their page counts sum to N.
C1_PartitionCoversDocument ==
    (Splitting /\ pc = "done" /\ Len(pages) >= 1) =>
        /\ Len(disk) >= 1
        /\ AllWritten
        /\ OutputDocument(1).start = 0
        /\ OutputDocument(Len(disk)).end = Len(pages)
        /\ \A k \in 1..(Len(disk) - 1) :
               OutputDocument(k).end = OutputDocument(k + 1).start
        /\ \A k \in 1..Len(disk) :
               /\ Len(OutputDocument(k).pages) =
                      OutputDocument(k).end - OutputDocument(k).start
               /\ \A j \in 1..Len(OutputDocument(k).pages) :
                      /\ OutputDocument(k).pages[j] >= OutputDocument(k).start
                      /\ OutputDocument(k).pages[j] < OutputDocument(k).end
        /\ \A k, l \in 1..Len(disk) :
               k # l => \A a \in 1..Len(OutputDocument(k).pages) :
                            \A b \in 1..Len(OutputDocument(l).pages) :
                                OutputDocument(k).pages[a] #
                                    OutputDocument(l).pages[b]
        /\ ConcatPages(disk) = AllPages(Len(pages))

\* a finished split of a document of MaxPages pages into several documents,
\* one of them of two pages or more
C1_Witness ==
    /\ Splitting /\ pc = "done"
    /\ Len(pages) >= 3
    /\ Len(disk) >= 2
    /\ \E k \in 1..Len(disk) : Len(OutputDocument(k).pages) >= 2

\* C2: for a document of zero pages split_invoices fails with an
\* EmptyDocument error: it writes no file and returns no path.
C2_EmptyDocumentFails ==
    (Splitting /\ Len(pages) = 0) =>
        /\ disk = << >>
        /\ result = None
        /\ pc # "done"
        /\ pc = "raised" => error = "EmptyDocument"

\* C3: every output document split_invoices writes holds at least one page
\* (a file that was created and not written holds no document).
C3_OutputsNonEmpty ==
    Splitting =>
        \A k \in 1..Len(disk) :
            disk[k].content # None => Len(OutputDocument(k).pages) >= 1

\* C4: the list _find_invoice_starts returns starts with 0, is strictly
\* increasing, and each of its elements is a page index of the document,
\* below the number of pages.
C4_BoundaryListValid ==
    (Splitting /\ pc = "found") =>
        /\ Len(invoice_starts) >= 1
        /\ invoice_starts[1] = 0
        /\ \A k \in 1..(Len(invoice_starts) - 1) :
               invoice_starts[k] < invoice_starts[k + 1]
        /\ \A k \in 1..Len(invoice_starts) :
               invoice_starts[k] >= 0 /\ invoice_starts[k] < Len(pages)

\* C5: with a pattern supplied (the empty pattern included), whether a page
\* of index >= 1 that has text is a boundary is decided by the pattern
\* alone: the page is in the list exactly if the pattern matches its text.
C5_PatternPrecedence ==
    (Splitting /\ pc = "found" /\ page_start_pattern # None) =>
        \A p \in 1..(Len(pages) - 1) :
            Truthy(extract_text(pages[p + 1])) =>
                ((\E k \in 1..Len(invoice_starts) : invoice_starts[k] = p)
                 <=> ReSearchIgnoreCase(page_start_pattern[1],
                                        extract_text(pages[p + 1])))

\* two letters equal up to their case
SameLetter(a, b) ==
    \/ a = b
    \/ a >= 65 /\ a <= 90 /\ b = a + 32
    \/ b >= 65 /\ b <= 90 /\ a = b + 32

\* the offsets of the page text at which the marker occurs, in either case
OccurrenceOffsets(marker, text) ==
    { k \in 0..Len(text) :
          /\ k + Len(marker) <= Len(text)
          /\ \A j \in 1..Len(marker) : SameLetter(text[k + j], marker[j]) }

\* the marker occurs entirely inside the first 500 characters, and its first
\* occurrence starts below offset 500
MarkerNearTop(marker, text) ==
    LET occ == OccurrenceOffsets(marker, text)
    IN  /\ \E k \in occ : k + Len(marker) <= Window
        /\ \E k \in occ : k < Window /\ \A l \in occ : k <= l

IsBoundary(p) == \E k \in 1..Len(invoice_starts) : invoice_starts[k] = p

\* C6: when the markers decide, a page of index >= 1 is a boundary only if
\* some marker occurs (in either case) inside the first 500 characters of
\* its text with its first occurrence below offset 500; a page on which
\* every occurrence of every marker starts at or after offset 500 or
\* straddles it is not a boundary.
C6_MarkerWindow ==
    (Splitting /\ pc = "found" /\ ~UsesPattern(page_start_pattern)) =>
        \A p \in 1..(Len(pages) - 1) :
            LET text == extract_text(pages[p + 1])
            IN  /\ IsBoundary(p) =>
                       \E m \in 1..Len(markers) : MarkerNearTop(markers[m], text)
                /\ (\A m \in 1..Len(markers) :
                        \A k \in OccurrenceOffsets(markers[m], text) :
                            k + Len(markers[m]) > Window)
                   => ~IsBoundary(p)

\* the scan is over; one page has the marker at the top and is a boundary,
\* another has it across offset 500 and is none
C6_Witness ==
    /\ Splitting /\ pc = "found" /\ ~UsesPattern(page_start_pattern)
    /\ markers = <<WordBillLower>>
    /\ \E p, q \in 1..(Len(pages) - 1) :
           /\ pages[p + 1] = [pad |-> 0, word |-> WordBill]
           /\ IsBoundary(p)
           /\ pages[q + 1] = [pad |-> Window - 1, word |-> WordBill]
           /\ ~IsBoundary(q)

\* the page of index p >= 1 qualifies as a boundary
PageQualifies(p) ==
    LET text == extract_text(pages[p + 1])
    IN  /\ Truthy(text)
        /\ IsNewInvoice(text, ResolvedMarkers(invoice_markers),
                        page_start_pattern)

NoPageQualifies == \A p \in 1..(Len(pages) - 1) : ~PageQualifies(p)

\* the errors of the reader, of the text extraction and of the file system
SplitLibraryErrors == {"PdfReadError", "extract_text error", "OSError"}

\* C7: when no page of index >= 1 qualifies as a boundary, split_invoices
\* on a document of N >= 1 pages, no call of the libraries failing, ends by
\* returning, not by raising, and returns one path, of one output document
\* holding the pages 0 .. N-1.
C7_SingleInvoice ==
    (Splitting /\ pc \in {"done", "raised"} /\ Len(pages) >= 1
               /\ error \notin SplitLibraryErrors
               /\ NoPageQualifies) =>
        /\ pc = "done" /\ error = "none"
        /\ Len(result) = 1
        /\ Len(disk) = 1
        /\ AllWritten
        /\ OutputDocument(1).pages = AllPages(Len(pages))
        /\ OutputDocument(1).start = 0 /\ OutputDocument(1).end = Len(pages)

\* a finished split of a document of several pages whose marker is on the
\* first page only
C7_Witness ==
    /\ Splitting /\ pc = "done" /\ NoPageQualifies
    /\ Len(pages) >= 2
    /\ invoice_markers = Some(<<WordBillLower>>)
    /\ pages[1] = [pad |-> 0, word |-> WordBill]
    /\ Len(disk) = 1

----------------------------------------------------------------------------
(* Properties of the editor. *)

Editing == op \in {"replace_text", "replace_text_multiple"}

\* the calls that change the text of a page
Mutations == {"apply_redactions", "insert_text"}

\* the calls that locate a text and fix the point of its insertion
Locations == {"search_for", "add_redact_annot"}

\* the text of the page is as fitz.open gave it
TextUntouched(n) ==
    /\ doc[n + 1].line = source[n + 1].line
    /\ doc[n + 1].inserts = << >>

\* C8: in replace_text_multiple, on every page, the searches for all keys
\* and the insertions computed from them come before any redaction is
\* applied and before any text is inserted on that page: while the keys of
\* a page are searched the page still holds its original text, and no
\* search or annotation of a page follows a change of that page.
C8_LocateBeforeMutate ==
    op = "replace_text_multiple" =>
        /\ pc \in {"m_key", "m_annot"} => TextUntouched(page_num)
        /\ \A a, b \in 1..Len(events) :
               (/\ events[a].call \in Mutations
                /\ events[b].call \in Locations
                /\ events[a].page = events[b].page) => b < a

\* two keys were found on a page; its redactions are applied and the first
\* new text is inserted
C8_Witness ==
    /\ op = "replace_text_multiple" /\ pc = "m_insert"
    /\ Len(replacements) = 2
    /\ Len(text_insertions) >= 2
    /\ ins_num >= 1
    /\ doc[page_num + 1].line # source[page_num + 1].line
    /\ doc[page_num + 1].inserts # << >>

\* C9: when an edit operation ends with an exception, the document at the
\* output path, if there is one, was written with all pages processed.
C9_NoPartialOutput ==
    (Editing /\ pc = "raised") =>
        \/ out_file = None
        \/ out_file[1].done_pages = Len(source)

\* C10: without PyMuPDF, replace_text and replace_text_multiple raise
\* ImportError: no document is opened, changed or saved, no call is made on
\* one, and no path is returned.
C10_MissingCapabilityFailsFast ==
    (Editing /\ ~PYMUPDF_AVAILABLE) =>
        /\ pc \in {"start", "raised"}
        /\ pc = "raised" => error = "ImportError"
        /\ doc_state = "unopened" /\ doc = << >>
        /\ out_file = None
        /\ events = << >>
        /\ result = None

\* replace_text has raised ImportError on a document with pages
C10_Witness ==
    /\ op = "replace_text" /\ ~PYMUPDF_AVAILABLE
    /\ pc = "raised" /\ error = "ImportError"
    /\ Len(source) >= 1

\* no key of the call occurs on the page of index n of the source
NoKeyFound(n) ==
    \A k \in 1..Len(replacements) :
        Hits(source[n + 1].line, replacements[k][1], 0) = << >>

\* the calls that mark, remove or add something on a page
PageChanges == {"add_redact_annot", "apply_redactions", "insert_text"}

\* C11: editing keeps the number and the order of the pages: the opened
\* document and the saved one have the pages of the source, each at its
\* place and with its glyphs kept or removed, never moved.  A page on which
\* no key is found is as it was opened: no redaction is marked or applied
\* and no text is inserted on it.
C11_PagesKept ==
    (Editing /\ doc_state # "unopened") =>
        /\ Len(doc) = Len(source)
        /\ out_file # None => Len(out_file[1].pages) = Len(source)
        /\ \A n \in 0..(Len(source) - 1) :
               /\ doc[n + 1].height = source[n + 1].height
               /\ Len(doc[n + 1].line) = Len(source[n + 1].line)
               /\ \A k \in 1..Len(source[n + 1].line) :
                      doc[n + 1].line[k] \in {0, source[n + 1].line[k]}
               /\ NoKeyFound(n) =>
                      /\ doc[n + 1] = OpenDocument(source)[n + 1]
                      /\ out_file # None =>
                             out_file[1].pages[n + 1] = doc[n + 1]
                      /\ \A e \in 1..Len(events) :
                             events[e].page = n =>
                                 events[e].call \notin PageChanges

\* a finished edit of two pages: the key is found on the second page, which
\* is changed, and not on the first, which has text
C11_Witness ==
    /\ Editing /\ pc = "done"
    /\ Len(source) = 2
    /\ source[1].line # << >> /\ NoKeyFound(0)
    /\ ~NoKeyFound(1) /\ doc[2].inserts # << >>

\* the saves made when the processing of all pages was over
FinalSaves ==
    { e \in 1..Len(events) :
          events[e].call = "save" /\ events[e].arg = <<Len(source)>> }

\* C12: in an edit that returns, exactly one save is made after the last
\* page is processed; every other save is made before that.
C12_OneFinalSave ==
    (Editing /\ pc = "done") =>
        /\ Cardinality(FinalSaves) = 1
        /\ \A e \in 1..Len(events) :
               (events[e].call = "save" /\ e \notin FinalSaves) =>
                   events[e].arg[1] < Len(source)

\* the left edges of the regions of the keys k, k+1, ... on the source page
\* of index n, each with the new text of its key: keys in the order of the
\* call, regions from left to right
RECURSIVE LocatedFrom(_, _)
LocatedFrom(n, k) ==
    IF k > Len(replacements) THEN << >>
    ELSE LET hits == Hits(source[n + 1].line, replacements[k][1], 0)
         IN  [h \in 1..Len(hits) |->
                 [left |-> hits[h],
                  right |-> hits[h] + Len(replacements[k][1]),
                  text |-> replacements[k][2]]]
             \o LocatedFrom(n, k + 1)

\* some new text holds some key, the case of letters ignored
NewTextHoldsKey ==
    \E k, l \in 1..Len(replacements) :
        /\ replacements[l][1] # << >>
        /\ Contains(Lower(replacements[l][1]), Lower(replacements[k][2]))

\* C13: after an edit that returns, on every page, each located region of
\* every key is redacted (its glyphs are removed) and has exactly one
\* insertion of the new text of its key, at the left edge of the region: the
\* page has as many insertions as regions were located, in the same order.
\* When no new text holds a key, no key is found on the page any more.
C13_EachRegionReplaced ==
    (Editing /\ pc = "done") =>
        \A n \in 0..(Len(source) - 1) :
            LET located == LocatedFrom(n, 1)
                page == out_file[1].pages[n + 1]
            IN  /\ Len(page.inserts) = Len(located)
                /\ \A r \in 1..Len(located) :
                       /\ page.inserts[r].point[1] = located[r].left
                       /\ page.inserts[r].text = located[r].text
                       /\ \A g \in (located[r].left + 1)..located[r].right :
                              page.line[g] = 0
                /\ page.annots = << >>
                /\ ~NewTextHoldsKey =>
                       \A k \in 1..Len(replacements) :
                           search_for(page, replacements[k][1]) = << >>

\* a finished edit with two keys, none held by a new text, on a document
\* with a page on which two or more regions were located and replaced
C13_Witness ==
    /\ Editing /\ pc = "done"
    /\ Len(replacements) = 2 /\ ~NewTextHoldsKey
    /\ \E n \in 0..(Len(source) - 1) :
           /\ Len(LocatedFrom(n, 1)) >= 2
           /\ Len(out_file[1].pages[n + 1].inserts) >= 2

\* the number a sequence of decimal digits writes
RECURSIVE DecimalValue(_)
DecimalValue(d) ==
    IF d = << >> THEN 0
    ELSE 10 * DecimalValue(SubSeq(d, 1, Len(d) - 1)) + d[Len(d)]

\* After a split that returns: the k-th file written is the k-th output in
\* page order; it is in the output directory and is named by the stem of
\* the source, the given infix, k in three digits, and ".pdf"; the list
\* returned holds the paths of the files in that order, and no two paths
\* are equal.
OutputsNamed(infix) ==
    (Splitting /\ pc = "done") =>
        /\ Len(result) = Len(disk)
        /\ AllWritten
        /\ \A k \in 1..Len(disk) :
               /\ disk[k].name.dir = "output_dir"
               /\ disk[k].name.stem = "base_name"
               /\ disk[k].name.infix = infix
               /\ disk[k].name.ext = ".pdf"
               /\ Len(disk[k].name.number) = 3
               /\ DecimalValue(disk[k].name.number) = k
               /\ result[k] = disk[k].name
        /\ \A k \in 1..(Len(disk) - 1) :
               OutputDocument(k).start <= OutputDocument(k + 1).start
        /\ \A k, l \in 1..Len(result) : k # l => result[k] # result[l]

\* C14 (as claimed): the files are named {sourceBaseName}_invoice_{i:03d}.pdf.
C14_InvoiceNames == OutputsNamed("_invoice_")

\* C14 (amended): the files are named {sourceBaseName}_faktura_{i:03d}.pdf,
\* i from 1 in page order; the returned list holds these paths in that
\* order and they are pairwise distinct.
C14_FakturaNames == OutputsNamed("_faktura_")

\* a finished split into three output documents or more
C14_Witness ==
    /\ Splitting /\ pc = "done"
    /\ Len(disk) >= 3
    /\ Len(result) >= 3

\* C15: a page of index >= 1 whose extract_text() yields no text is never in
\* the list of invoice starts, whether the markers or the pattern decide,
\* and also when the pattern matches the empty string or a marker is the
\* empty string.
C15_EmptyPageNeverBoundary ==
    Splitting =>
        \A p \in 1..(Len(pages) - 1) :
            extract_text(pages[p + 1]) = << >> => ~IsBoundary(p)

\* the scan is over, the pattern ".*" decides and matches the empty string; a
\* page without text was passed over and a page with text is a boundary
C15_Witness ==
    /\ Splitting /\ pc = "found"
    /\ page_start_pattern = Some(PatternAny)
    /\ ReSearchIgnoreCase(page_start_pattern[1], << >>)
    /\ \E p, q \in 1..(Len(pages) - 1) :
           /\ extract_text(pages[p + 1]) = << >>
           /\ ~IsBoundary(p)
           /\ extract_text(pages[q + 1]) # << >>
           /\ IsBoundary(q)

\* the handles the operation holds: the files split_invoices has open and
\* the fitz document of the editor
HeldHandles ==
    open_files \cup (IF doc_state = "open" THEN {"document"} ELSE {})

\* C16: when an operation has ended, by returning or by raising (a failure
\* of a page call or of a save included), it holds no handle: the source
\* file, every output file and the fitz document are closed.
C16_HandlesReleased ==
    pc \in {"done", "raised"} => HeldHandles = {}

\* an edit that saved a page, then failed inside the try block, and closed
\* the document before the exception left
C16_Witness ==
    /\ Editing /\ pc = "raised" /\ error = "RuntimeError"
    /\ doc_state = "closed"
    /\ out_file # None
    /\ events[Len(events)].call = "close"
    /\ HeldHandles = {}

\* C17: the branch of split_invoices that raises "no invoices found" is
\* never taken: for every document, the one of zero pages included, and
\* every markers and pattern, the empty marker list included, the list
\* _find_invoice_starts builds and returns is not empty, and split_invoices
\* never raises that error.
C17_NoInvoicesUnreachable ==
    Splitting =>
        /\ error # "ValueError: no invoices"
        /\ pc \in {"scan", "found"} =>
               /\ invoice_starts # << >>
               /\ ~NoInvoicesFound(invoice_starts)

\* the check of the list has passed for a document of zero pages and an
\* empty marker list: the list held page 0 and got its terminal boundary
C17_Witness ==
    /\ Splitting /\ pc = "write"
    /\ Len(pages) = 0
    /\ invoice_markers = Some(<< >>)
    /\ page_start_pattern = None
    /\ error = "none"
    /\ invoice_starts = <<0, 0>>

\* the calls of a run other than the saves
WithoutSaves(evs) == SelectSeq(evs, LAMBDA e : e.call # "save")

\* C18: replace_text(old, new) and replace_text_multiple({old: new}) on the
\* same document end the same way (both return the output path, or both
\* raise ImportError); when they return they have made, page by page, the
\* same calls in the same order with the same arguments (open, search_for,
\* add_redact_annot, apply_redactions, insert_text, close), the saves left
\* aside, and the document at the output path is the same.
C18_SingleIsTrivialMultiple ==
    (op = "replace_text_multiple" /\ first # None
         /\ pc \in {"done", "raised"} /\ error \in {"none", "ImportError"}) =>
        /\ error = first[1].error
        /\ result = first[1].result
        /\ (pc = "done") <=> (first[1].error = "none")
        /\ WithoutSaves(events) = WithoutSaves(first[1].events)
        /\ pc = "done" =>
               /\ out_file # None /\ first[1].out_file # None
               /\ out_file[1].pages = first[1].out_file[1].pages
               /\ out_file[1].done_pages = first[1].out_file[1].done_pages

\* both calls have returned on a document of two pages, one page with two
\* instances of the old text and one page, left as it was, with none
C18_Witness ==
    /\ op = "replace_text_multiple" /\ first # None /\ pc = "done"
    /\ Len(source) = 2
    /\ \E n \in 1..Len(source) :
           Len(out_file[1].pages[n].inserts) >= 2
    /\ \E n \in 1..Len(source) :
           out_file[1].pages[n] = OpenDocument(source)[n]
    /\ \E e \in 1..Len(events) : events[e].call = "apply_redactions"
    /\ Len(WithoutSaves(events)) < Len(events)

====
